---------------------------- MODULE Spec2Model ----------------------------
(***************************************************************************)
(* Production-management service: the relational schema (schema.sql), the  *)
(* repository layer and the gin handlers of main.go, the earlier server    *)
(* build kept beside it, and the spreadsheet importer.                     *)
(*                                                                         *)
(* The database is the committed contents of the five tables.  Every SQL   *)
(* statement is one atomic step; a request is a process whose steps are    *)
(* its statements, so that requests interleave statement by statement.     *)
(* DECIMAL(10,2) values are integers counted in hundredths (2.5 = 250).    *)
(* The article column is carried through unread and is left out.           *)
(***************************************************************************)
EXTENDS Integers, Sequences, FiniteSets, Bags, TLC

\* ------------------------------------------------------------------ bounds
NumProcs == 2
MaxPid == 2
MaxWs == 2
MaxRows == 2

Procs == 1..NumProcs

\* ------------------------------------------------------------ input domains
Variants == {"main", "part_001"}
IdTexts == {<<>>, <<"a">>, <<"1">>, <<"2">>, <<"3">>, <<"1", "a">>}
MaterialTexts == {<<"a">>, <<"1">>, <<"2">>}
TypeTexts == {<<"a">>, <<"1">>}
NameVals == {"", "Widget"}
MaterialIdVals == {0, 1, 2}
TypeIdVals == {0, 1}
PriceVals == {1250}
WorkshopPairs ==
    { [workshop_id |-> 1, production_time |-> 250],
      [workshop_id |-> 2, production_time |-> 350],
      [workshop_id |-> 3, production_time |-> 250] }
WorkshopLists ==
    UNION { [1..n -> WorkshopPairs] : n \in 0..MaxWs }

PriceTexts == { <<"1", "2", ",", "5", "0">>, <<" ", "x">> }
ImportRows ==
    { <<t, "Widget", "A-1", c, m>> :
        t \in {"Chair", "Sofa"}, c \in PriceTexts, m \in {" wood", "Steel"} }
    \cup { <<"Chair", "Widget", "A-1", <<"1", "2", ",", "5", "0">> >> }

SeedMaterials == { [id |-> 1, material_name |-> "Wood"] }
SeedTypes == { [id |-> 1, type_name |-> "Chair"] }
SeedWorkshops == {1, 2}

VARIABLES
    variant,      \* which server build is running: main.go or the earlier one
    materials,    \* table materials: rows [id, material_name]
    types,        \* table products_types: rows [id, type_name]
    workshops,    \* table workshops: the ids of its rows
    products,     \* table products: rows [id, product_name, material_id, type_id, min_price]
    links,        \* table products_workshop: a bag of [product_id, workshop_id, production_time]
    productSeq,   \* products_id_seq: the last value handed out (never rolled back)
    proc,         \* one record per in-flight request
    imp           \* the importer's run

vars == <<variant, materials, types, workshops, products, links, productSeq, proc, imp>>
db == <<materials, types, workshops, products, links>>

\* ---------------------------------------------------------------- helpers
NoRows == <<>>
NoInput == [product_name |-> "", material_id |-> 0, type_id |-> 0,
            min_price |-> 0, workshops |-> <<>>]
\* A Go error: the step it is tagged with, the workshop it names, and the
\* engine's cause it wraps ("fk", "unique", "exec"; "none" when it wraps none).
NoErr == [tag |-> "none", workshop |-> 0, cause |-> "none"]
Err(t, cause) == [tag |-> t, workshop |-> 0, cause |-> cause]

\* execErr, touched and invalid record what happened to the request: whether its
\* last statement failed to execute, whether it reached the storage engine, and
\* whether it carried a validation error.
IdleProc == [pc |-> "idle", handler |-> "none", idText |-> <<>>, input |-> NoInput,
             productID |-> 0, k |-> 0, err |-> NoErr, resp |-> <<>>, execErr |-> FALSE,
             touched |-> FALSE, invalid |-> FALSE, cancelled |-> FALSE]

ImpStart == [pc |-> "row", i |-> 0, productName |-> "", typeName |-> "", minPrice |-> 0,
             materialID |-> 0, typeID |-> 0, successCount |-> 0, errorCount |-> 0]

ProductIds == { p.id : p \in products }

RECURSIVE SumBag(_)
SumBag(b) ==
    IF DOMAIN b = {} THEN 0
    ELSE LET e == CHOOSE x \in DOMAIN b : TRUE
             rest == [x \in DOMAIN b \ {e} |-> b[x]]
         IN  b[e] * e.production_time + SumBag(rest)

LinksWhere(b, pid) == [e \in { x \in DOMAIN b : x.product_id = pid } |-> b[e]]
LinksWithout(b, pid) == [e \in { x \in DOMAIN b : x.product_id # pid } |-> b[e]]
LinksWithoutWorkshop(b, wid) == [e \in { x \in DOMAIN b : x.workshop_id # wid } |-> b[e]]

\* --------------------------------------------------------- text conversions
IsDigit(c) == c \in {"0", "1", "2", "3", "4", "5", "6", "7", "8", "9"}
DigitVal(c) ==
    CASE c = "0" -> 0 [] c = "1" -> 1 [] c = "2" -> 2 [] c = "3" -> 3 [] c = "4" -> 4
      [] c = "5" -> 5 [] c = "6" -> 6 [] c = "7" -> 7 [] c = "8" -> 8 [] c = "9" -> 9

RECURSIVE DigitsValue(_, _)
DigitsValue(s, acc) ==
    IF s = <<>> THEN acc ELSE DigitsValue(Tail(s), acc * 10 + DigitVal(Head(s)))

RECURSIVE DigitPrefix(_)
DigitPrefix(s) ==
    IF s = <<>> \/ ~IsDigit(Head(s)) THEN <<>> ELSE <<Head(s)>> \o DigitPrefix(Tail(s))

\* fmt.Sscanf(id, "%d", &n): reads the leading run of digits and stops at the
\* first other character; it fails only when there is no leading digit.
Sscanf(s) ==
    LET d == DigitPrefix(s)
    IN  IF d = <<>> THEN [ok |-> FALSE, n |-> 0] ELSE [ok |-> TRUE, n |-> DigitsValue(d, 0)]

\* strconv.Atoi(id): the whole text must be digits.
Atoi(s) ==
    IF s # <<>> /\ DigitPrefix(s) = s
    THEN [ok |-> TRUE, n |-> DigitsValue(s, 0)]
    ELSE [ok |-> FALSE, n |-> 0]

\* ------------------------------------------------------- aggregated reads
\* The rows of  products p JOIN materials m JOIN products_types pt  for one product.
InnerJoined(pid) ==
    { [p |-> p, m |-> m, pt |-> pt] :
        p \in { x \in products : x.id = pid },
        m \in materials, pt \in types }

JoinedRows(pid) ==
    { j \in InnerJoined(pid) : j.m.id = j.p.material_id /\ j.pt.id = j.p.type_id }

\* SUM(pw.production_time) over the LEFT JOIN: NULL when no link row matches.
SqlNull == [null |-> TRUE, v |-> 0]
SqlValue(n) == [null |-> FALSE, v |-> n]

\* The sum with the join condition pw.product_id = p.id left out.
SumProductionTimeUnjoined(pid) ==
    IF DOMAIN links = {} THEN SqlNull ELSE SqlValue(SumBag(links))

SumProductionTime(pid) ==
    LET pw == LinksWhere(links, pid)
    IN  IF DOMAIN pw = {} THEN SqlNull ELSE SqlValue(SumBag(pw))

Coalesce(x, d) == IF x.null THEN d ELSE x.v

ProductWithTime(j) ==
    [id |-> j.p.id, product_name |-> j.p.product_name,
     material_name |-> j.m.material_name, type_name |-> j.pt.type_name,
     min_price |-> j.p.min_price,
     total_production_time |-> Coalesce(SumProductionTime(j.p.id), 0)]

\* GetProductByID without the pgx.ErrNoRows case: no row is a query error.
GetProductByIDNoRowsIsError(id, fault) ==
    IF fault \/ JoinedRows(id) = {} THEN [rows |-> NoRows, err |-> Err("query", "exec")]
    ELSE [rows |-> << ProductWithTime(CHOOSE j \in JoinedRows(id) : TRUE) >>, err |-> NoErr]

\* GetProductByID: <<>> and no error for pgx.ErrNoRows, the row otherwise.
GetProductByID(id, fault) ==
    IF fault THEN [rows |-> NoRows, err |-> Err("query", "exec")]
    ELSE IF JoinedRows(id) = {} THEN [rows |-> NoRows, err |-> NoErr]
    ELSE [rows |-> << ProductWithTime(CHOOSE j \in JoinedRows(id) : TRUE) >>, err |-> NoErr]

RECURSIVE RowsFrom(_)
RowsFrom(ids) ==
    IF ids = {} THEN <<>>
    ELSE LET lo == CHOOSE i \in ids : \A j \in ids : i <= j
         IN  (IF JoinedRows(lo) = {} THEN <<>>
              ELSE << ProductWithTime(CHOOSE j \in JoinedRows(lo) : TRUE) >>)
             \o RowsFrom(ids \ {lo})

\* GetAllProducts: the same query without the filter, ORDER BY p.id.
GetAllProducts(fault) ==
    IF fault THEN [rows |-> NoRows, err |-> Err("query", "exec")]
    ELSE [rows |-> RowsFrom(ProductIds), err |-> NoErr]

\* ------------------------------------------------------------------ Init
Init ==
    /\ variant \in Variants
    /\ materials = SeedMaterials
    /\ types = SeedTypes
    /\ workshops = SeedWorkshops
    /\ products = {}
    /\ links = EmptyBag
    /\ productSeq = 0
    /\ proc = [p \in Procs |-> IdleProc]
    /\ imp = ImpStart

\* ------------------------------------------------- schema constraints
\* fk_products_material, fk_products_type: the referenced rows must exist.
FkProductOK(input) ==
    /\ \E m \in materials : m.id = input.material_id
    /\ \E t \in types : t.id = input.type_id

\* fk_pw_workshop: the workshop must exist.
FkWorkshopOK(wid) == wid \in workshops

\* The table without its uniqueness constraint.
UniqueNotEnforced(visible, pid, wid) == TRUE

\* unique_product_workshop against the rows the transaction can see.
UniqueProductWorkshopOK(visible, pid, wid) ==
    \A e \in DOMAIN visible : ~(e.product_id = pid /\ e.workshop_id = wid)

ProductRow(id, input) ==
    [id |-> id, product_name |-> input.product_name, material_id |-> input.material_id,
     type_id |-> input.type_id, min_price |-> input.min_price]

LinkRow(pid, w) ==
    [product_id |-> pid, workshop_id |-> w.workshop_id, production_time |-> w.production_time]

RECURSIVE LinkBag(_, _, _)
LinkBag(pid, ws, n) ==
    IF n = 0 THEN EmptyBag ELSE LinkBag(pid, ws, n - 1) (+) SetToBag({LinkRow(pid, ws[n])})

\* ------------------------------------------------ open transactions
InTx(p) == proc[p].pc \in {"insert_link", "commit"}
\* The rows a transaction has written and not yet committed: its product and the
\* links of the pairs before position k.
TxProduct(p) == ProductRow(proc[p].productID, proc[p].input)
TxLinks(p) == LinkBag(proc[p].productID, proc[p].input.workshops, proc[p].k - 1)

\* A referenced row is key-share locked by the inserting transaction until it
\* ends: a DELETE of it waits.
MaterialLocked(mid) == \E p \in Procs : InTx(p) /\ proc[p].input.material_id = mid
TypeLocked(tid) == \E p \in Procs : InTx(p) /\ proc[p].input.type_id = tid
WorkshopLocked(wid) ==
    \E p \in Procs : InTx(p) /\ \E e \in DOMAIN TxLinks(p) : e.workshop_id = wid


\* ------------------------------------------------------------ responses
Json(status, kind, rows) == [status |-> status, kind |-> kind, rows |-> rows]

\* What the request carried, as the taxonomy of validation errors names it: an
\* identifier that is not an integer, a required field missing or unparsable.
IsInteger(seg) == seg # <<>> /\ \A i \in 1..Len(seg) : IsDigit(seg[i])
MissingRequired(name, materialOK, typeOK) == name = "" \/ ~materialOK \/ ~typeOK

Finish(p, handler, seg, pid, err, resp, execErr, touched, invalid) ==
    proc' = [proc EXCEPT ![p] =
        [pc |-> "done", handler |-> handler, idText |-> seg, input |-> NoInput,
         productID |-> pid, k |-> 0, err |-> err, resp |-> resp, execErr |-> execErr,
         touched |-> touched, invalid |-> invalid, cancelled |-> FALSE]]

Working(p, pc, handler, input, pid, k, invalid) ==
    proc' = [proc EXCEPT ![p] =
        [pc |-> pc, handler |-> handler, idText |-> <<>>, input |-> input,
         productID |-> pid, k |-> k, err |-> NoErr, resp |-> <<>>, execErr |-> FALSE,
         touched |-> TRUE, invalid |-> invalid, cancelled |-> FALSE]]

\* The request's context, c.Request.Context(), is cancelled while the request
\* is between two statements.
Cancel(p) ==
    /\ proc[p].pc \in {"insert_link", "commit", "readback"}
    /\ ~proc[p].cancelled
    /\ proc' = [proc EXCEPT ![p].cancelled = TRUE]
    /\ UNCHANGED <<variant, db, productSeq, imp>>

\* A statement given a context other than the request's.
StatementFailsUncancelled(p, fault) == fault

\* A statement run with ctx fails to execute when the driver fails or when ctx
\* has been cancelled.
StatementFails(p, fault) == fault \/ proc[p].cancelled

\* ----------------------------------------------------- GET /api/products
GetProductsHandler(p, fault) ==
    /\ proc[p].pc = "idle"
    /\ LET r == GetAllProducts(fault)
       IN  Finish(p, "GetProductsHandler", <<>>, 0, r.err,
                  IF r.err # NoErr THEN << Json(500, "error", NoRows) >>
                  ELSE << Json(200, "list", r.rows) >>,
                  fault, TRUE, FALSE)
    /\ UNCHANGED <<variant, db, productSeq, imp>>

\* ------------------------------------------------- GET /api/products/:id
GetProductByIDResponse(r) ==
    IF r.err # NoErr THEN << Json(500, "error", NoRows) >>
    ELSE IF r.rows = NoRows THEN << Json(404, "error", NoRows) >>
    ELSE << Json(200, "product", r.rows) >>

GetProductByIDHandler(p, seg, fault) ==
    /\ proc[p].pc = "idle"
    /\ seg # <<>>
    /\ LET id == Sscanf(seg)
           r == GetProductByID(id.n, fault)
       IN  IF ~id.ok
           THEN Finish(p, "GetProductByIDHandler", seg, 0, NoErr,
                       << Json(400, "error", NoRows) >>, FALSE, FALSE, ~IsInteger(seg))
           ELSE Finish(p, "GetProductByIDHandler", seg, id.n, r.err,
                       GetProductByIDResponse(r), fault, TRUE, ~IsInteger(seg))
    /\ UNCHANGED <<variant, db, productSeq, imp>>

\* ---------------------------------------------------------- DeleteById
\* pool.Exec of DELETE FROM products WHERE id = $1; a failed Exec returns the
\* empty command tag, whose RowsAffected is 0.
DeleteExec(id, fault) ==
    [rowsAffected |-> IF fault THEN 0 ELSE Cardinality({ x \in products : x.id = id }),
     execErr |-> fault]

\* DeleteById without the affected-row check.
DeleteByIdErrOnly(r) == IF r.execErr THEN Err("delete", "none") ELSE NoErr

\* DeleteById with the two checks in the other order.
DeleteByIdErrFirst(r) ==
    IF r.execErr THEN Err("delete", "none")
    ELSE IF r.rowsAffected = 0 THEN Err("nothing_deleted", "none")
    ELSE NoErr

DeleteByIdResult(r) ==
    IF r.rowsAffected = 0 THEN Err("nothing_deleted", "none")
    ELSE IF r.execErr THEN Err("delete", "none")
    ELSE NoErr

ProductsAfterDelete(id, fault) ==
    IF fault THEN products ELSE { x \in products : x.id # id }

\* The delete without the cascade rule.
LinksAfterDeleteNoCascade(id, fault) == links

\* fk_pw_product ON DELETE CASCADE
LinksAfterDelete(id, fault) ==
    IF fault THEN links ELSE LinksWithout(links, id)

\* The route table: main.go registers DELETE /api/products/:id, the earlier
\* build DELETE /api/products.
DeleteRouted(v, seg) == IF v = "main" THEN seg # <<>> ELSE seg = <<>>

\* Server.DeleteById: the earlier build does not return after the 502.
ServerDeleteByIdResponse(v, err) ==
    IF err # NoErr
    THEN IF v = "main" THEN << Json(502, "error", NoRows) >>
         ELSE << Json(502, "error", NoRows), Json(200, "message", NoRows) >>
    ELSE << Json(200, "message", NoRows) >>

ServerDeleteById(p, seg, fault) ==
    /\ proc[p].pc = "idle"
    /\ LET id == Sscanf(seg)
           err == DeleteByIdResult(DeleteExec(id.n, fault))
       IN  IF ~DeleteRouted(variant, seg)
           THEN /\ Finish(p, "NoRoute", seg, 0, NoErr,
                          << Json(404, "error", NoRows) >>, FALSE, FALSE, ~IsInteger(seg))
                /\ UNCHANGED <<products, links>>
           ELSE IF ~id.ok
           THEN /\ Finish(p, "DeleteById", seg, 0, NoErr,
                          << Json(400, "error", NoRows) >>, FALSE, FALSE, ~IsInteger(seg))
                /\ UNCHANGED <<products, links>>
           ELSE /\ Finish(p, "DeleteById", seg, id.n, err,
                          ServerDeleteByIdResponse(variant, err), fault, TRUE,
                          ~IsInteger(seg))
                /\ products' = ProductsAfterDelete(id.n, fault)
                /\ links' = LinksAfterDelete(id.n, fault)
    /\ UNCHANGED <<variant, materials, types, workshops, productSeq, imp>>

\* ---------------------------------------------- POST /products/:id/delete
ProductsDeleteHandler(p, seg, fault) ==
    /\ proc[p].pc = "idle"
    /\ variant = "main"
    /\ seg # <<>>
    /\ LET id == Atoi(seg)
           err == DeleteByIdResult(DeleteExec(id.n, fault))
       IN  IF ~id.ok
           THEN /\ Finish(p, "ProductsDeleteHandler", seg, 0, NoErr,
                          << Json(303, "redirect", NoRows) >>, FALSE, FALSE,
                          ~IsInteger(seg))
                /\ UNCHANGED <<products, links>>
           ELSE /\ Finish(p, "ProductsDeleteHandler", seg, id.n, err,
                          IF err # NoErr THEN << Json(303, "redirect_error", NoRows) >>
                          ELSE << Json(303, "redirect_message", NoRows) >>,
                          fault, TRUE, ~IsInteger(seg))
                /\ products' = ProductsAfterDelete(id.n, fault)
                /\ links' = LinksAfterDelete(id.n, fault)
    /\ UNCHANGED <<variant, materials, types, workshops, productSeq, imp>>

\* ------------------------------------------------- POST /api/products
\* binding:"required" rejects the zero value of the field.
BindProductOK(input) ==
    input.product_name # "" /\ input.material_id # 0 /\ input.type_id # 0

\* The insert with the id taken from the rows it can see instead of the sequence.
InsertProductMaxId(input, fault) ==
    IF fault THEN [ok |-> FALSE, id |-> 0, seq |-> productSeq, cause |-> "exec"]
    ELSE IF ~FkProductOK(input)
    THEN [ok |-> FALSE, id |-> 0, seq |-> productSeq + 1, cause |-> "fk"]
    ELSE [ok |-> TRUE, id |-> Cardinality(products) + 1, seq |-> productSeq + 1,
          cause |-> "none"]

\* INSERT INTO products ... RETURNING id.  The id is nextval of the sequence,
\* taken before the foreign keys are checked and not given back on failure.
InsertProduct(input, fault) ==
    IF fault THEN [ok |-> FALSE, id |-> 0, seq |-> productSeq, cause |-> "exec"]
    ELSE IF ~FkProductOK(input)
    THEN [ok |-> FALSE, id |-> 0, seq |-> productSeq + 1, cause |-> "fk"]
    ELSE [ok |-> TRUE, id |-> productSeq + 1, seq |-> productSeq + 1, cause |-> "none"]

CreateProductHandler(p, input, fault) ==
    /\ proc[p].pc = "idle"
    /\ productSeq < MaxPid
    /\ input.workshops = <<>>
    /\ LET ins == InsertProduct(input, fault)
       IN  IF ~BindProductOK(input)
           THEN /\ Finish(p, "CreateProductHandler", <<>>, 0, NoErr,
                          << Json(400, "error", NoRows) >>, FALSE, FALSE, TRUE)
                /\ UNCHANGED <<products, productSeq>>
           ELSE IF ~ins.ok
           THEN /\ Finish(p, "CreateProductHandler", <<>>, 0, Err("product", ins.cause),
                          << Json(500, "error", NoRows) >>, fault, TRUE, FALSE)
                /\ productSeq' = ins.seq
                /\ UNCHANGED products
           ELSE /\ Working(p, "readback", "CreateProductHandler", NoInput, ins.id, 0, FALSE)
                /\ productSeq' = ins.seq
                /\ products' = products \cup {ProductRow(ins.id, input)}
    /\ UNCHANGED <<variant, materials, types, workshops, links, imp>>

\* The read-back of both JSON create handlers: GetProductByID, then 201 with
\* whatever it returned.
ReadBackResponse(r) ==
    IF r.err # NoErr THEN << Json(500, "error", NoRows) >>
    ELSE << Json(201, IF r.rows = NoRows THEN "null" ELSE "product", r.rows) >>

ReadBack(p, fault) ==
    /\ proc[p].pc = "readback"
    /\ LET r == GetProductByID(proc[p].productID, StatementFails(p, fault))
       IN  proc' = [proc EXCEPT ![p].pc = "done", ![p].resp = ReadBackResponse(r),
                                ![p].execErr = StatementFails(p, fault)]
    /\ UNCHANGED <<variant, db, productSeq, imp>>

\* -------------------------------------------- CreateProductWithWorkshops
\* How each caller answers a failed CreateProductWithWorkshops.
FailureResponse(handler) ==
    IF handler = "ProductsCreateHandler" THEN << Json(400, "form_error", NoRows) >>
    ELSE << Json(500, "error", NoRows) >>

\* An exit on which the deferred rollback does not run.
RollbackSkipped(me) == me

\* defer tx.Rollback(ctx): what the transaction wrote and did not commit is
\* discarded, and the call returns 0 for the id.
Rollback(me) == [me EXCEPT !.input = NoInput, !.k = 0, !.productID = 0]

Fail(p, err) ==
    proc' = [proc EXCEPT ![p] = [Rollback(proc[p]) EXCEPT
                 !.pc = "done", !.err = err, !.execErr = err.cause = "exec",
                 !.resp = FailureResponse(proc[p].handler)]]

\* pool.Begin and the product insert inside the transaction.
BeginAndInsertProduct(p, handler, input, fault, invalid) ==
    LET ins == InsertProduct(input, fault = "product")
    IN  IF fault = "begin"
        THEN /\ Finish(p, handler, <<>>, 0, Err("begin", "exec"), FailureResponse(handler),
                       TRUE, TRUE, invalid)
             /\ UNCHANGED productSeq
        ELSE IF ~ins.ok
        THEN /\ Finish(p, handler, <<>>, 0, Err("product", ins.cause),
                       FailureResponse(handler), ins.cause = "exec", TRUE, invalid)
             /\ productSeq' = ins.seq
        ELSE /\ Working(p, IF input.workshops = <<>> THEN "commit" ELSE "insert_link",
                        handler, input, ins.id, 1, invalid)
             /\ productSeq' = ins.seq

\* POST /api/products/with-workshops
CreateProductWithWorkshopsHandler(p, input, fault) ==
    /\ proc[p].pc = "idle"
    /\ productSeq < MaxPid
    /\ IF ~BindProductOK(input)
       THEN /\ Finish(p, "CreateProductWithWorkshopsHandler", <<>>, 0, NoErr,
                      << Json(400, "error", NoRows) >>, FALSE, FALSE, TRUE)
            /\ UNCHANGED productSeq
       ELSE BeginAndInsertProduct(p, "CreateProductWithWorkshopsHandler", input, fault, FALSE)
    /\ UNCHANGED <<variant, db, imp>>

\* One pass of the loop over input.Workshops: tx.Exec of the link insert, and
\* what makes it fail ("none": it succeeds).
LinkInsertCause(p, w, fault) ==
    IF StatementFails(p, fault) THEN "exec"
    ELSE IF ~UniqueProductWorkshopOK(links (+) TxLinks(p), proc[p].productID, w.workshop_id)
    THEN "unique"
    ELSE IF ~FkWorkshopOK(w.workshop_id) THEN "fk"
    ELSE "none"

\* fmt.Errorf("... %d: %w", workshop.WorkshopID, err)
LinkError(w, cause) == [tag |-> "link", workshop |-> w.workshop_id, cause |-> cause]

InsertLink(p, fault) ==
    /\ proc[p].pc = "insert_link"
    /\ LET me == proc[p]
           w == me.input.workshops[me.k]
           cause == LinkInsertCause(p, w, fault)
       IN  IF cause = "none"
           THEN proc' = [proc EXCEPT ![p].k = me.k + 1,
                             ![p].pc = IF me.k = Len(me.input.workshops)
                                       THEN "commit" ELSE "insert_link"]
           ELSE Fail(p, LinkError(w, cause))
    /\ UNCHANGED <<variant, db, productSeq, imp>>

\* A commit that loses the last link of the batch.
LinksAfterCommitPartial(p) ==
    links (+) LinkBag(proc[p].productID, proc[p].input.workshops,
                      IF proc[p].k > 1 THEN proc[p].k - 2 ELSE 0)

\* A commit that writes its pairs under the preceding product id as well.
LinksAfterCommitShared(p) ==
    links (+) TxLinks(p)
          (+) LinkBag(proc[p].productID - 1, proc[p].input.workshops, proc[p].k - 1)

\* What tx.Commit makes visible.
ProductsAfterCommit(p) == products \cup {TxProduct(p)}
LinksAfterCommit(p) == links (+) TxLinks(p)

Commit(p, fault) ==
    /\ proc[p].pc = "commit"
    /\ IF StatementFails(p, fault)
       THEN /\ Fail(p, Err("commit", "exec"))
            /\ UNCHANGED <<products, links>>
       ELSE /\ products' = ProductsAfterCommit(p)
            /\ links' = LinksAfterCommit(p)
            /\ IF proc[p].handler = "ProductsCreateHandler"
               THEN proc' = [proc EXCEPT ![p].pc = "done", ![p].input = NoInput, ![p].k = 0,
                                 ![p].resp = << Json(303, "redirect_message", NoRows) >>]
               ELSE proc' = [proc EXCEPT ![p].pc = "readback", ![p].input = NoInput,
                                 ![p].k = 0]
    /\ UNCHANGED <<variant, materials, types, workshops, productSeq, imp>>

\* ------------------------------------------------ POST /products/create
\* strconv.Atoi with the error dropped: 0 for a missing or unparsable field.
AtoiOrZero(s) == Atoi(s).n

\* Only the pairs with workshopID > 0 && productionTime > 0 are kept.
KeptPairs(ws) == SelectSeq(ws, LAMBDA w : w.workshop_id > 0 /\ w.production_time > 0)

RECURSIVE SeqBag(_)
SeqBag(s) == IF s = <<>> THEN EmptyBag ELSE SetToBag({Head(s)}) (+) SeqBag(Tail(s))

\* The form's keys are read by ranging over a map: any order.
MapOrders(ws) ==
    { s \in WorkshopLists : Len(s) = Len(ws) /\ SeqBag(s) = SeqBag(ws) }

FormInput(name, materialText, typeText, price, ws) ==
    [product_name |-> name, material_id |-> AtoiOrZero(materialText),
     type_id |-> AtoiOrZero(typeText), min_price |-> price, workshops |-> ws]

ProductsCreateHandler(p, name, materialText, typeText, price, fields, fault) ==
    /\ proc[p].pc = "idle"
    /\ variant = "main"
    /\ productSeq < MaxPid
    /\ \E ws \in MapOrders(KeptPairs(fields)) :
          BeginAndInsertProduct(p, "ProductsCreateHandler",
              FormInput(name, materialText, typeText, price, ws), fault,
              MissingRequired(name, IsInteger(materialText), IsInteger(typeText)))
    /\ UNCHANGED <<variant, db, imp>>

\* ------------------------------------------------- reference tables
\* The delete of a material without the RESTRICT rule.
DeleteMaterialUnrestricted(mid) ==
    /\ \E m \in materials : m.id = mid
    /\ ~MaterialLocked(mid)
    /\ materials' = { m \in materials : m.id # mid }
    /\ UNCHANGED <<variant, types, workshops, products, links, productSeq, proc, imp>>

\* fk_products_material ON DELETE RESTRICT
DeleteMaterial(mid) ==
    /\ \E m \in materials : m.id = mid
    /\ ~MaterialLocked(mid)
    /\ \A x \in products : x.material_id # mid
    /\ materials' = { m \in materials : m.id # mid }
    /\ UNCHANGED <<variant, types, workshops, products, links, productSeq, proc, imp>>

\* fk_products_type ON DELETE RESTRICT
DeleteType(tid) ==
    /\ \E t \in types : t.id = tid
    /\ ~TypeLocked(tid)
    /\ \A x \in products : x.type_id # tid
    /\ types' = { t \in types : t.id # tid }
    /\ UNCHANGED <<variant, materials, workshops, products, links, productSeq, proc, imp>>

\* fk_pw_workshop ON DELETE CASCADE
DeleteWorkshop(wid) ==
    /\ wid \in workshops
    /\ ~WorkshopLocked(wid)
    /\ workshops' = workshops \ {wid}
    /\ links' = LinksWithoutWorkshop(links, wid)
    /\ UNCHANGED <<variant, materials, types, products, productSeq, proc, imp>>

\* ---------------------------------------------------------------- importer
\* strings.TrimSpace and SQL LOWER on the names the workbook and the tables hold.
TrimSpace(s) == CASE s = " wood" -> "wood" [] OTHER -> s
Lower(s) == CASE s = "Wood" -> "wood" [] s = "Chair" -> "chair"
              [] s = "Sofa" -> "sofa" [] s = "Steel" -> "steel" [] OTHER -> s

RECURSIVE TrimLeft(_)
TrimLeft(s) == IF s # <<>> /\ Head(s) = " " THEN TrimLeft(Tail(s)) ELSE s
RECURSIVE TrimRight(_)
TrimRight(s) ==
    IF s # <<>> /\ s[Len(s)] = " " THEN TrimRight(SubSeq(s, 1, Len(s) - 1)) ELSE s
RECURSIVE ReplaceAll(_, _, _)
ReplaceAll(s, old, new) ==
    IF s = <<>> THEN <<>>
    ELSE (IF Head(s) = old THEN new ELSE <<Head(s)>>) \o ReplaceAll(Tail(s), old, new)

\* strconv.ParseFloat on an optional sign and digits with an optional
\* fraction, in hundredths.
ParseFloat(s) ==
    LET neg == s # <<>> /\ Head(s) = "-"
        body == IF neg THEN Tail(s) ELSE s
        whole == DigitPrefix(body)
        rest == SubSeq(body, Len(whole) + 1, Len(body))
        frac == IF rest # <<>> /\ Head(rest) = "." THEN Tail(rest) ELSE <<>>
        okShape == /\ whole # <<>>
                   /\ rest = <<>> \/ (Head(rest) = "." /\ DigitPrefix(frac) = frac)
        cents == IF frac = <<>> THEN 0
                 ELSE IF Len(frac) = 1 THEN 10 * DigitVal(frac[1])
                 ELSE 10 * DigitVal(frac[1]) + DigitVal(frac[2])
        abs == 100 * DigitsValue(whole, 0) + cents
    IN  IF okShape THEN [ok |-> TRUE, v |-> IF neg THEN 0 - abs ELSE abs]
        ELSE [ok |-> FALSE, v |-> 0]

parseDecimal(cell) ==
    LET s == ReplaceAll(ReplaceAll(TrimRight(TrimLeft(cell)), ",", <<".">>), " ", <<>>)
    IN  IF s = <<>> THEN [ok |-> TRUE, v |-> 0] ELSE ParseFloat(s)

\* SELECT id FROM materials WHERE LOWER(material_name) = LOWER($1)
getMaterialID(name, fault) ==
    IF fault THEN {} ELSE { m.id : m \in { x \in materials : Lower(x.material_name) = Lower(name) } }
\* SELECT id FROM products_types WHERE LOWER(type_name) = LOWER($1)
getTypeID(name, fault) ==
    IF fault THEN {} ELSE { t.id : t \in { x \in types : Lower(x.type_name) = Lower(name) } }

\* The error path of a row with errorCount++ left out.
RowErrorUncounted == [imp EXCEPT !.pc = "row", !.i = imp.i + 1]

RowError == [imp EXCEPT !.pc = "row", !.i = imp.i + 1, !.errorCount = imp.errorCount + 1]

\* One pass of the loop up to its first statement: the header is skipped, a
\* short row or an unparsable price is an error, then the material is looked up.
ImportRow(row, fault) ==
    /\ imp.pc = "row"
    /\ imp.i <= MaxRows
    /\ LET price == parseDecimal(row[4])
           mids == getMaterialID(TrimSpace(row[5]), fault)
       IN  IF imp.i = 0 THEN imp' = [imp EXCEPT !.i = 1]
           ELSE IF Len(row) < 5 THEN imp' = RowError
           ELSE IF ~price.ok THEN imp' = RowError
           ELSE IF mids = {} THEN imp' = RowError
           ELSE \E mid \in mids :
                   imp' = [imp EXCEPT !.pc = "type", !.productName = TrimSpace(row[2]),
                                      !.typeName = TrimSpace(row[1]), !.minPrice = price.v,
                                      !.materialID = mid]
    /\ UNCHANGED <<variant, db, productSeq, proc>>

ImportType(fault) ==
    /\ imp.pc = "type"
    /\ LET tids == getTypeID(imp.typeName, fault)
       IN  IF tids = {} THEN imp' = [RowError EXCEPT !.productName = "", !.typeName = "",
                                                    !.minPrice = 0, !.materialID = 0]
           ELSE \E tid \in tids : imp' = [imp EXCEPT !.pc = "insert", !.typeID = tid]
    /\ UNCHANGED <<variant, db, productSeq, proc>>

ImportInput ==
    [product_name |-> imp.productName, material_id |-> imp.materialID,
     type_id |-> imp.typeID, min_price |-> imp.minPrice, workshops |-> <<>>]

ImportInsert(fault) ==
    /\ imp.pc = "insert"
    /\ productSeq < MaxPid
    /\ LET ins == InsertProduct(ImportInput, fault)
           cleared == [imp EXCEPT !.pc = "row", !.i = imp.i + 1, !.productName = "",
                                  !.typeName = "", !.minPrice = 0, !.materialID = 0,
                                  !.typeID = 0]
       IN  /\ productSeq' = ins.seq
           /\ IF ins.ok
              THEN /\ products' = products \cup {ProductRow(ins.id, ImportInput)}
                   /\ imp' = [cleared EXCEPT !.successCount = imp.successCount + 1]
              ELSE /\ UNCHANGED products
                   /\ imp' = [cleared EXCEPT !.errorCount = imp.errorCount + 1]
    /\ UNCHANGED <<variant, materials, types, workshops, links, proc>>

\* The rows are exhausted: the summary is printed.
ImportEnd ==
    /\ imp.pc = "row"
    /\ imp.i >= 1
    /\ imp' = [imp EXCEPT !.pc = "done"]
    /\ UNCHANGED <<variant, db, productSeq, proc>>

Importer ==
    \/ \E row \in ImportRows, fault \in BOOLEAN : ImportRow(row, fault)
    \/ \E fault \in BOOLEAN : ImportType(fault)
    \/ \E fault \in BOOLEAN : ImportInsert(fault)
    \/ ImportEnd

\* ---------------------------------------------------------------- reset
\* The response has been sent; the slot takes the next request.
Reset(p) ==
    /\ proc[p].pc = "done"
    /\ proc' = [proc EXCEPT ![p] = IdleProc]
    /\ UNCHANGED <<variant, db, productSeq, imp>>

\* ------------------------------------------------------- specifications
JsonInputs ==
    [product_name : NameVals, material_id : MaterialIdVals, type_id : TypeIdVals,
     min_price : PriceVals, workshops : WorkshopLists]
TxFaults == {"none", "begin", "product"}

Request(p) ==
    \/ \E fault \in BOOLEAN : GetProductsHandler(p, fault)
    \/ \E seg \in IdTexts, fault \in BOOLEAN : GetProductByIDHandler(p, seg, fault)
    \/ \E seg \in IdTexts, fault \in BOOLEAN : ServerDeleteById(p, seg, fault)
    \/ \E seg \in IdTexts, fault \in BOOLEAN : ProductsDeleteHandler(p, seg, fault)
    \/ \E input \in JsonInputs, fault \in BOOLEAN : CreateProductHandler(p, input, fault)
    \/ \E input \in JsonInputs, fault \in TxFaults :
          CreateProductWithWorkshopsHandler(p, input, fault)
    \/ \E name \in NameVals, mt \in MaterialTexts, tt \in TypeTexts, price \in PriceVals,
          fields \in WorkshopLists, fault \in TxFaults :
          ProductsCreateHandler(p, name, mt, tt, price, fields, fault)

Step(p) ==
    \/ \E fault \in BOOLEAN : InsertLink(p, fault)
    \/ \E fault \in BOOLEAN : Commit(p, fault)
    \/ \E fault \in BOOLEAN : ReadBack(p, fault)

Admin ==
    \/ \E mid \in MaterialIdVals : DeleteMaterial(mid)
    \/ \E tid \in TypeIdVals : DeleteType(tid)
    \/ \E wid \in SeedWorkshops : DeleteWorkshop(wid)

\* A written response leaves its slot before another request moves on.
Flushed(p) == \A q \in Procs \ {p} : proc[q].pc # "done"
\* Requests served one at a time.
Alone(p) == \A q \in Procs \ {p} : proc[q].pc = "idle"

Next ==
    \/ \E p \in Procs : Alone(p) /\ Request(p)
    \/ \E p \in Procs : Alone(p) /\ Step(p)
    \/ \E p \in Procs : Reset(p)
    \/ Admin

Spec == Init /\ [][Next]_vars

\* Concurrent requests: the JSON create handlers and the JSON delete, of main.go.
ConcInputs == { i \in JsonInputs : BindProductOK(i) }
ConcIdTexts == { s \in IdTexts : IsInteger(s) }

RequestConc(p) ==
    \/ \E seg \in ConcIdTexts : ServerDeleteById(p, seg, FALSE)
    \/ \E input \in ConcInputs, fault \in BOOLEAN : CreateProductHandler(p, input, fault)
    \/ \E input \in ConcInputs, fault \in TxFaults :
          CreateProductWithWorkshopsHandler(p, input, fault)

InitConc == Init /\ variant = "main"

NextConc ==
    \/ \E p \in Procs : Flushed(p) /\ RequestConc(p)
    \/ \E p \in Procs : Flushed(p) /\ Step(p)
    \/ \E p \in Procs : Reset(p)
    \/ Admin

SpecConc == InitConc /\ [][NextConc]_vars

\* The server under concurrent requests beside a run of the importer.
NextAll == NextConc \/ Importer

SpecAll == InitConc /\ [][NextAll]_vars

\* A run of the importer alone, the reference tables being managed beside it.
NextImport == Importer \/ Admin

SpecImport == Init /\ [][NextImport]_vars

\* Concurrent requests whose contexts may be cancelled, the client having gone.
NextCancel == NextConc \/ \E p \in Procs : Cancel(p)

SpecCancel == InitConc /\ [][NextCancel]_vars

\* Requests and workbook rows whose numbers carry a sign: min_price and
\* production_time are float64 fields, the price cell is any text.
SignedPrices == {0 - 500, 1250}
SignedPairs ==
    { [workshop_id |-> 1, production_time |-> 250],
      [workshop_id |-> 2, production_time |-> 0 - 350] }
SignedLists == UNION { [1..n -> SignedPairs] : n \in 0..MaxWs }
SignedInputs ==
    [product_name : {"Widget"}, material_id : {1}, type_id : {1},
     min_price : SignedPrices, workshops : SignedLists]
SignedRows ==
    { <<"Chair", "Widget", "A-1", c, "Wood">> :
        c \in { <<"-", "5">>, <<"1", "2", ",", "5", "0">> } }

NextSigned ==
    \/ \E p \in Procs, input \in SignedInputs :
          Alone(p) /\ CreateProductHandler(p, input, FALSE)
    \/ \E p \in Procs, input \in SignedInputs :
          Alone(p) /\ CreateProductWithWorkshopsHandler(p, input, "none")
    \/ \E p \in Procs, price \in SignedPrices, fields \in SignedLists :
          Alone(p) /\ ProductsCreateHandler(p, "Widget", <<"1">>, <<"1">>, price, fields, "none")
    \/ \E p \in Procs : Alone(p) /\ Step(p)
    \/ \E p \in Procs : Reset(p)
    \/ \E row \in SignedRows : ImportRow(row, FALSE)
    \/ ImportType(FALSE)
    \/ ImportInsert(FALSE)
    \/ ImportEnd

SpecSigned == Init /\ [][NextSigned]_vars

\* ------------------------------------------------------------------ claims
StepOf(p) == proc'[p] # proc[p]
TxHandlers == {"CreateProductWithWorkshopsHandler", "ProductsCreateHandler"}
\* A step of p inside a call of CreateProductWithWorkshops: the one that enters
\* it, or one taken with its transaction open.
InCall(p) ==
    \/ proc[p].pc = "idle" /\ proc'[p].handler \in TxHandlers /\ proc'[p].touched
    \/ proc[p].pc \in {"insert_link", "commit"}
CommitOK(p) == proc[p].pc = "commit" /\ proc'[p].err = NoErr

C1Step(p) ==
    StepOf(p) /\ InCall(p) =>
        IF CommitOK(p)
        THEN LET id == proc[p].productID
                 ws == proc[p].input.workshops
                 added == links' (-) links
             IN  /\ id \notin ProductIds
                 /\ products \subseteq products'
                 /\ Cardinality(products' \ products) = 1
                 /\ \A x \in products' \ products : x.id = id
                 /\ links \sqsubseteq links'
                 /\ BagCardinality(added) = Len(ws)
                 /\ \A e \in BagToSet(added) : e.product_id = id
                 /\ \A i \in 1..Len(ws) : BagIn(LinkRow(id, ws[i]), added)
        ELSE products' = products /\ links' = links

\* C1: CreateProductWithWorkshops is atomic.  The step that commits persists
\* exactly one new product row and exactly the N supplied links, all for it;
\* every other step of the call, the failing ones included (begin, product
\* insert, any link, commit), persists nothing.
C1_Atomic == [][\A p \in Procs : C1Step(p)]_vars

\* A call with two pairs has committed and both links are persisted.
C1_Witness ==
    \E p \in Procs :
        /\ proc[p].pc = "readback"
        /\ proc[p].handler = "CreateProductWithWorkshopsHandler"
        /\ BagCardinality(LinksWhere(links, proc[p].productID)) = 2

C2Step(p) ==
    LET me == proc[p]
        ws == me.input.workshops
        w == ws[me.k]
        duplicate == \E j \in 1..(me.k - 1) : ws[j].workshop_id = w.workshop_id
        unknown == w.workshop_id \notin workshops
        failsHere == /\ proc'[p].pc = "done"
                     /\ proc'[p].err.tag = "link"
                     /\ proc'[p].err.workshop = w.workshop_id
                     /\ proc'[p].resp = << Json(500, "error", NoRows) >>
                     /\ db' = db
    IN  /\ StepOf(p) /\ me.pc = "insert_link" =>
              /\ (duplicate \/ unknown) => failsHere
              /\ proc'[p].err # NoErr => failsHere
              /\ proc'[p].err = NoErr => proc'[p].k = me.k + 1 /\ db' = db
        /\ StepOf(p) /\ CommitOK(p) =>
              /\ \A i, j \in 1..Len(ws) : i # j => ws[i].workshop_id # ws[j].workshop_id
              /\ \A i \in 1..Len(ws) : ws[i].workshop_id \in workshops

\* C2: a workshop list with a repeated or an unknown workshop_id makes the call
\* fail.  The pairs are inserted in input order; the insert of the first pair
\* that repeats an earlier workshop_id or names no existing workshop fails, the
\* error names that pair's workshop_id, the call ends there (no later pair is
\* tried) with products and links as they were; a call that commits had
\* neither a repeated nor an unknown workshop_id.
C2_FirstBadPairFails == [][\A p \in Procs : C2Step(p)]_vars

\* The second pair repeated workshop 1 and the call failed naming it; no link
\* of the rolled-back product is persisted.
C2_Witness ==
    \E p \in Procs :
        /\ proc[p].pc = "done"
        /\ proc[p].err = [tag |-> "link", workshop |-> 1, cause |-> "unique"]
        /\ productSeq >= 1
        /\ \A e \in BagToSet(links) : e.product_id # productSeq

\* The total the data model defines: production_time added up over the link
\* rows of the product, nothing for a product without links.
RECURSIVE TimeOfRows(_)
TimeOfRows(rows) ==
    IF rows = {} THEN 0
    ELSE LET e == CHOOSE x \in rows : TRUE
         IN  CopiesIn(e, links) * e.production_time + TimeOfRows(rows \ {e})
ExpectedTotal(pid) == TimeOfRows({ e \in BagToSet(links) : e.product_id = pid })

\* C3: for every persisted product GetProductByID and GetAllProducts both
\* report it, once, with total_production_time equal to the sum of
\* production_time over exactly its own links, 0 when it has none; so the two
\* agree.
C3_TotalProductionTime ==
    \A x \in products :
        LET one == GetProductByID(x.id, FALSE)
            all == GetAllProducts(FALSE)
            at == { i \in 1..Len(all.rows) : all.rows[i].id = x.id }
        IN  /\ one.err = NoErr /\ all.err = NoErr
            /\ Len(one.rows) = 1
            /\ one.rows[1].id = x.id
            /\ one.rows[1].total_production_time = ExpectedTotal(x.id)
            /\ Cardinality(at) = 1
            /\ \A i \in at : all.rows[i].total_production_time = ExpectedTotal(x.id)
            /\ (\A e \in BagToSet(links) : e.product_id # x.id) =>
                   one.rows[1].total_production_time = 0

\* GET /api/products/:id answered 6.0 for a product whose links are 2.5 and
\* 3.5, while another product has links of its own.
C3_Witness ==
    \E p \in Procs :
        /\ proc[p].pc = "done"
        /\ proc[p].handler = "GetProductByIDHandler"
        /\ Len(proc[p].resp) = 1
        /\ proc[p].resp[1].status = 200
        /\ proc[p].resp[1].rows[1].total_production_time = 600
        /\ LET id == proc[p].productID
           IN  /\ LinksWhere(links, id) =
                     SetToBag({ [product_id |-> id, workshop_id |-> 1, production_time |-> 250],
                                [product_id |-> id, workshop_id |-> 2, production_time |-> 350] })
               /\ \E e \in BagToSet(links) : e.product_id # id

\* A step in which p's request ran the repository's DeleteById, from either
\* delete handler; proc'[p].productID is the identifier it was called with.
DeleteCall(p) ==
    /\ proc[p].pc = "idle"
    /\ proc'[p].pc = "done"
    /\ proc'[p].handler \in {"DeleteById", "ProductsDeleteHandler"}
    /\ proc'[p].touched

\* C4: DeleteById with an identifier that matches no product returns the
\* "nothing deleted" failure, never nil, and changes no row of any table.
C4_DeleteMissing ==
    [][\A p \in Procs :
          DeleteCall(p) /\ proc'[p].productID \notin ProductIds =>
              /\ proc'[p].err.tag = "nothing_deleted"
              /\ db' = db]_vars

\* DeleteById ran, without an execution error, for an identifier that is not
\* among the products that exist, and reported that nothing was deleted.
C4_Witness ==
    \E p \in Procs :
        /\ proc[p].pc = "done"
        /\ proc[p].handler = "DeleteById"
        /\ proc[p].touched /\ ~proc[p].execErr
        /\ proc[p].productID \notin ProductIds
        /\ products # {}
        /\ links # EmptyBag
        /\ proc[p].err.tag = "nothing_deleted"

\* C5: DeleteById on an existing product, when the statement executes, returns
\* nil and removes that product row and every link of that product; whatever
\* it returns, it leaves every other product, every link of another product
\* and all materials, types and workshops as they were.
C5_DeleteCascades ==
    [][\A p \in Procs :
          DeleteCall(p) =>
              LET id == proc'[p].productID
              IN  /\ materials' = materials /\ types' = types /\ workshops' = workshops
                  /\ { x \in products' : x.id # id } = { x \in products : x.id # id }
                  /\ \A e \in BagToSet(links) \cup BagToSet(links') :
                        e.product_id # id => CopiesIn(e, links') = CopiesIn(e, links)
                  /\ products' \subseteq products
                  /\ links' \sqsubseteq links
                  /\ id \in ProductIds /\ ~proc'[p].execErr =>
                        /\ proc'[p].err = NoErr
                        /\ \A x \in products' : x.id # id
                        /\ \A e \in BagToSet(links') : e.product_id # id]_vars

\* A delete succeeded: its product is gone with its links, and another
\* product and that product's links are still there.
C5_Witness ==
    \E p \in Procs :
        /\ proc[p].pc = "done"
        /\ proc[p].handler = "DeleteById"
        /\ proc[p].err = NoErr /\ proc[p].touched
        /\ proc[p].productID = 1
        /\ proc[p].productID \notin ProductIds
        /\ \E e \in BagToSet(links) : e.product_id = 2

\* ---------------------------------------------------------------- C6
\* C6: in every state reachable by created products, transactional creations
\* with workshops, imported rows, product deletions and deletions of material,
\* type and workshop rows, in any interleaving: every product's material_id
\* and type_id name an existing material and type row, every link names an
\* existing product and an existing workshop, and no two links have the same
\* (product_id, workshop_id).
C6_ReferentialIntegrity ==
    /\ \A x \in products :
          /\ \E m \in materials : m.id = x.material_id
          /\ \E t \in types : t.id = x.type_id
    /\ \A e \in BagToSet(links) :
          /\ e.product_id \in ProductIds
          /\ e.workshop_id \in workshops
          /\ CopiesIn(e, links) = 1
          /\ \A f \in BagToSet(links) :
                (f.product_id = e.product_id /\ f.workshop_id = e.workshop_id) => f = e

\* An imported product beside a product created with links, one of whose
\* workshops has since been deleted together with its link.
C6_Witness ==
    /\ imp.successCount >= 1
    /\ Cardinality(products) = 2
    /\ links # EmptyBag
    /\ workshops # SeedWorkshops
    /\ materials # {}

\* ---------------------------------------------------------------- C7
\* A JSON create request that has been answered.
Created(p) ==
    /\ proc[p].pc = "done"
    /\ proc[p].handler \in {"CreateProductHandler", "CreateProductWithWorkshopsHandler"}

\* C7: whenever POST /api/products or POST /api/products/with-workshops
\* answers 201, the body is the product this request created, not null and
\* with the generated id, whatever other requests ran in between.
C7_CreatedBody ==
    \A p \in Procs :
        Created(p) /\ proc[p].resp[1].status = 201 =>
            /\ proc[p].resp[1].kind = "product"
            /\ proc[p].resp[1].rows # NoRows
            /\ proc[p].resp[1].rows[1].id = proc[p].productID

\* ---------------------------------------------------------------- C8
\* A step that answers DELETE /api/products/<seg>, routed to Server.DeleteById
\* or to no handler.
DeleteRequest(p) ==
    /\ proc[p].pc = "idle"
    /\ proc'[p].pc = "done"
    /\ proc'[p].handler \in {"DeleteById", "NoRoute"}
    /\ proc'[p].idText # <<>>

Statuses(resp) == { resp[i].status : i \in 1..Len(resp) }

\* C8: every DELETE /api/products/:id gets exactly one response: 400 when the
\* id is not an integer, 502 when DeleteById fails, 200 only when the product
\* was deleted; a failure is never accompanied by the success message, and a
\* valid id of an existing product reaches DeleteById and is answered 200.
C8_DeleteResponses ==
    [][\A p \in Procs :
          DeleteRequest(p) =>
              LET seg == proc'[p].idText
                  id == Atoi(seg).n
                  resp == proc'[p].resp
              IN  /\ Len(resp) = 1
                  /\ ~IsInteger(seg) => Statuses(resp) = {400} /\ db' = db
                  /\ IsInteger(seg) /\ proc'[p].err # NoErr => Statuses(resp) = {502}
                  /\ 200 \in Statuses(resp) =>
                        /\ IsInteger(seg)
                        /\ id \in ProductIds
                        /\ id \notin { x.id : x \in products' }
                  /\ IsInteger(seg) /\ id \in ProductIds /\ ~proc'[p].execErr =>
                        /\ proc'[p].handler = "DeleteById"
                        /\ proc'[p].touched
                        /\ Statuses(resp) = {200}]_vars

\* ---------------------------------------------------------------- C9
\* C9: a request with a validation error, a malformed identifier or a required
\* field missing or unparsable, is answered with a client error and performs
\* no storage operation, in the JSON handlers and in the HTML form handlers.
C9_ValidationErrors ==
    \A p \in Procs :
        proc[p].pc = "done" /\ proc[p].invalid =>
            /\ \A i \in 1..Len(proc[p].resp) : proc[p].resp[i].status \in 400..499
            /\ ~proc[p].touched

\* ---------------------------------------------------------------- C10
\* A step in which GET /api/products/:id called GetProductByID;
\* proc'[p].productID is the identifier it was called with.
LookupCall(p) ==
    /\ proc[p].pc = "idle"
    /\ proc'[p].pc = "done"
    /\ proc'[p].handler = "GetProductByIDHandler"
    /\ proc'[p].touched

\* C10: GetProductByID tells not-found from failure.  For an id of no product
\* it returns no product and no error and the handler answers 404; on a query
\* error it returns the error and the handler answers 500; a product comes
\* back, with 200, exactly when a product with that id exists and the query ran.
C10_NotFoundVsFailure ==
    [][\A p \in Procs :
          LookupCall(p) =>
              LET id == proc'[p].productID
                  r == proc'[p]
              IN  /\ r.execErr =>
                        r.err # NoErr /\ r.resp = << Json(500, "error", NoRows) >>
                  /\ ~r.execErr /\ id \notin ProductIds =>
                        r.err = NoErr /\ r.resp = << Json(404, "error", NoRows) >>
                  /\ ~r.execErr /\ id \in ProductIds =>
                        /\ r.err = NoErr
                        /\ Len(r.resp) = 1
                        /\ r.resp[1].status = 200
                        /\ r.resp[1].kind = "product"
                        /\ Len(r.resp[1].rows) = 1
                        /\ r.resp[1].rows[1].id = id
                  /\ db' = db]_vars

\* The lookup of an id that matches none of the products that exist was
\* answered 404 with no error.
C10_Witness ==
    \E p \in Procs :
        /\ proc[p].pc = "done"
        /\ proc[p].handler = "GetProductByIDHandler"
        /\ proc[p].touched /\ ~proc[p].execErr
        /\ proc[p].productID \notin ProductIds
        /\ products # {}
        /\ proc[p].err = NoErr
        /\ proc[p].resp = << Json(404, "error", NoRows) >>

\* ---------------------------------------------------------------- C11
\* The importer finishes a data row: the loop moves to the next index.
RowDone == imp.i >= 1 /\ imp'.i = imp.i + 1

RowSkipped ==
    /\ imp'.errorCount = imp.errorCount + 1
    /\ imp'.successCount = imp.successCount
    /\ imp'.pc = "row"
    /\ db' = db

RowInserted ==
    /\ imp'.successCount = imp.successCount + 1
    /\ imp'.errorCount = imp.errorCount
    /\ imp'.pc = "row"
    /\ \E x \in products' \ products : products' = products \cup {x}
    /\ Cardinality(products') = Cardinality(products) + 1

MaterialKnown(name) == \E m \in materials : Lower(m.material_name) = Lower(TrimSpace(name))
TypeKnown(name) == \E t \in types : Lower(t.type_name) = Lower(name)

\* C11: the importer is a best-effort batch over the data rows.  A row that
\* fails a step (fewer than 5 columns, unparsable price, unresolved material
\* or type name, insert failure) inserts nothing, adds one to the error count
\* and leaves the loop at the next row; every other row inserts exactly one
\* product and adds one to the success count; successes + errors is the
\* number of data rows gone through and the products added are the successes.
C11_BestEffortImport ==
    /\ [](imp.i >= 1 => imp.successCount + imp.errorCount = imp.i - 1)
    /\ [](Cardinality(products) = imp.successCount)
    /\ [][RowDone => RowSkipped \/ RowInserted]_vars
    /\ [][\A row \in ImportRows, fault \in BOOLEAN :
            ImportRow(row, fault) /\ imp.i >= 1 =>
                IF Len(row) < 5 \/ row[4] = <<" ", "x">> \/ fault \/ ~MaterialKnown(row[5])
                THEN RowDone /\ RowSkipped
                ELSE imp'.pc = "type" /\ imp'.i = imp.i /\ db' = db]_vars
    /\ [][\A fault \in BOOLEAN :
            ImportType(fault) =>
                IF fault \/ ~TypeKnown(imp.typeName)
                THEN RowDone /\ RowSkipped
                ELSE imp'.pc = "insert" /\ imp'.i = imp.i /\ db' = db]_vars
    /\ [][\A fault \in BOOLEAN :
            ImportInsert(fault) =>
                IF fault \/ ~FkProductOK(ImportInput)
                THEN RowDone /\ RowSkipped
                ELSE RowDone /\ RowInserted]_vars

\* The run ended after one row was inserted and one was skipped.
C11_Witness ==
    /\ imp.pc = "done"
    /\ imp.i = 3
    /\ imp.successCount = 1
    /\ imp.errorCount = 1
    /\ Cardinality(products) = 1

\* ---------------------------------------------------------------- C12
\* The product ids the other requests' creations hold.
IdsOfOthers(p) ==
    { proc[q].productID : q \in { r \in Procs \ {p} :
          /\ proc[r].handler \in {"CreateProductHandler", "CreateProductWithWorkshopsHandler"}
          /\ proc[r].productID # 0 } }

\* The call starts with a product whose material and type exist.
C12Begin(p) ==
    \A input \in ConcInputs :
        CreateProductWithWorkshopsHandler(p, input, "none") /\ FkProductOK(input) =>
            /\ proc'[p].pc \in {"insert_link", "commit"}
            /\ proc'[p].err = NoErr
            /\ proc'[p].productID \notin IdsOfOthers(p) \cup ProductIds

\* A pair of an existing workshop that repeats none of the call's earlier pairs.
C12Link(p) ==
    InsertLink(p, FALSE) =>
        LET ws == proc[p].input.workshops
            k == proc[p].k
        IN  (ws[k].workshop_id \in workshops
             /\ \A i \in 1..(k - 1) : ws[i].workshop_id # ws[k].workshop_id) =>
                /\ proc'[p].pc \in {"insert_link", "commit"}
                /\ proc'[p].err = NoErr

C12Commit(p) ==
    Commit(p, FALSE) =>
        LET id == proc[p].productID
            ws == proc[p].input.workshops
        IN  /\ proc'[p].err = NoErr
            /\ id \notin ProductIds
            /\ id \in { x.id : x \in products' }
            /\ LinksWhere(links', id) = LinkBag(id, ws, Len(ws))
            /\ \A q \in Procs \ {p} : proc'[q] = proc[q]

\* C12: concurrent calls of CreateProductWithWorkshops with individually valid
\* inputs are independent in every interleaving of their statements: no
\* statement of one fails because of the other, so both commit; the ids are
\* distinct; each product gets exactly the links of its own call; the
\* (product_id, workshop_id) constraint never fails across calls.
C12_ConcurrentCreates ==
    [][\A p \in Procs : C12Begin(p) /\ C12Link(p) /\ C12Commit(p)]_vars

\* A call has committed a link to workshop 1 while a call opened before it,
\* holding a link to workshop 1 of its own, is still to commit.
C12_Witness ==
    \E p, q \in Procs :
        /\ proc[p].pc = "readback" /\ proc[p].handler = "CreateProductWithWorkshopsHandler"
        /\ proc[q].pc = "commit" /\ proc[q].handler = "CreateProductWithWorkshopsHandler"
        /\ proc[q].productID < proc[p].productID
        /\ \E e \in BagToSet(links) :
              e.product_id = proc[p].productID /\ e.workshop_id = 1
        /\ \E e \in DOMAIN TxLinks(q) : e.workshop_id = 1

\* ---------------------------------------------------------------- C13
\* C13: when the request context is cancelled inside CreateProductWithWorkshops
\* before the commit, the transaction is aborted: the statement that follows
\* fails, the call returns an error, and the product and its links are neither
\* persisted nor made visible to other requests.
C13_CancelAborts ==
    /\ [][\A p \in Procs :
            StepOf(p) /\ InTx(p) /\ proc[p].cancelled =>
                /\ proc'[p].pc = "done"
                /\ proc'[p].err # NoErr
                /\ proc'[p].resp = << Json(500, "error", NoRows) >>
                /\ proc[p].productID \notin { x.id : x \in products' }
                /\ products' = products
                /\ links' = links]_vars
    /\ [](\A p \in Procs :
            InTx(p) =>
                /\ proc[p].productID \notin ProductIds
                /\ \A e \in BagToSet(links) : e.product_id # proc[p].productID)

\* A call cancelled after its first link was written has returned the error
\* while another request's product is there to be seen.
C13_Witness ==
    \E p \in Procs :
        /\ proc[p].pc = "done"
        /\ proc[p].cancelled
        /\ proc[p].handler = "CreateProductWithWorkshopsHandler"
        /\ proc[p].err.tag = "link"
        /\ proc[p].err.workshop = 2
        /\ products # {}

\* ---------------------------------------------------------------- C14
\* The tag of the step a call was at when it failed.
StepTag(p) ==
    CASE proc[p].pc = "idle" -> {"begin", "product"}
      [] proc[p].pc = "insert_link" -> {"link"}
      [] proc[p].pc = "commit" -> {"commit"}

C14Step(p) ==
    StepOf(p) /\ InCall(p) =>
        IF proc'[p].err # NoErr
        THEN /\ proc'[p].pc = "done"
             /\ proc'[p].err.tag \in StepTag(p)
             /\ proc[p].pc = "insert_link" =>
                   proc'[p].err.workshop =
                       proc[p].input.workshops[proc[p].k].workshop_id
             /\ proc'[p].input = NoInput /\ proc'[p].k = 0 /\ proc'[p].productID = 0
             /\ products' = products /\ links' = links
        ELSE CommitOK(p) =>
             /\ TxProduct(p) \in products'
             /\ TxLinks(p) \sqsubseteq links'
             /\ proc'[p].productID = proc[p].productID
             /\ proc'[p].input = NoInput /\ proc'[p].k = 0

\* C14: on every exit path of CreateProductWithWorkshops with the transaction
\* open (product insert, any link insert, commit failing) the rollback has
\* run when the function returns and the error names the failing step; on
\* the success path the rollback after the commit removes nothing committed.
C14_RollbackOnExit == [][\A p \in Procs : C14Step(p)]_vars

\* A call whose commit failed after two links were written has returned.
C14_Witness ==
    \E p \in Procs :
        /\ proc[p].pc = "done"
        /\ proc[p].handler \in TxHandlers
        /\ proc[p].err.tag = "commit"
        /\ proc[p].productID = 0
        /\ productSeq = 2
        /\ Cardinality(products) = 1

\* ---------------------------------------------------------------- C15
\* What pool.Exec can hand to the two checks of DeleteById.
ExecResults == [rowsAffected : 0..1, execErr : BOOLEAN]

\* A request that ran DeleteById and has been answered.
Deleted(p) ==
    /\ proc[p].pc = "done"
    /\ proc[p].handler \in {"DeleteById", "ProductsDeleteHandler"}
    /\ proc[p].touched

\* C15: in DeleteById the affected-row check comes first and wins.  Zero
\* affected rows give the "nothing deleted" failure, with or without an
\* execution error; the "delete error" failure needs an error together with
\* a non-zero count; nil needs no error and at least one row deleted.
C15_RowCheckFirst ==
    /\ \A r \in ExecResults :
          /\ r.rowsAffected = 0 => DeleteByIdResult(r).tag = "nothing_deleted"
          /\ DeleteByIdResult(r).tag = "delete" => r.execErr /\ r.rowsAffected # 0
          /\ DeleteByIdResult(r) = NoErr => ~r.execErr /\ r.rowsAffected >= 1
    /\ \A p \in Procs :
          Deleted(p) =>
              /\ proc[p].execErr => proc[p].err.tag = "nothing_deleted"
              /\ proc[p].err = NoErr =>
                    ~proc[p].execErr /\ proc[p].productID \notin ProductIds

\* The delete statement of an existing product failed to execute and the call
\* reported that nothing was deleted.
C15_Witness ==
    \E p \in Procs :
        /\ Deleted(p)
        /\ proc[p].execErr
        /\ proc[p].err.tag = "nothing_deleted"
        /\ proc[p].productID \in ProductIds

\* ---------------------------------------------------------------- C16
\* The calls of CreateProductWithWorkshops that commit product id in this step.
Committing(id) == { p \in Procs : proc[p].pc = "commit" /\ proc[p].productID = id }

C16Step ==
    /\ \A id \in ProductIds : LinksWhere(links', id) \sqsubseteq LinksWhere(links, id)
    /\ \A x \in products' \ products :
          IF Committing(x.id) # {}
          THEN \A p \in Committing(x.id) : LinksWhere(links', x.id) = TxLinks(p)
          ELSE LinksWhere(links', x.id) = EmptyBag

\* C16: links are added only when their product is created.  In any sequence
\* of CreateProduct, CreateProductWithWorkshops, import, DeleteById and
\* reference-row deletions, a product that exists never gains a link and none
\* of its links changes its production_time; a product created by
\* CreateProduct or by the importer starts, and so stays, without links.
C16_LinksOnlyAtCreation == [][C16Step]_vars

\* An imported product without links beside a product created with its links.
C16_Witness ==
    /\ imp.successCount = 1
    /\ \E x, y \in products :
          /\ x.id < y.id
          /\ LinksWhere(links, x.id) # EmptyBag
          /\ LinksWhere(links, y.id) = EmptyBag

\* ---------------------------------------------------------------- C17
\* C17: in every reachable state the min_price of every product and the
\* production_time of every link are non-negative, each caller of the insert
\* paths (the JSON create handlers, the form handler, the importer) having
\* rejected or filtered out the negative values.
C17_NonNegative ==
    /\ \A x \in products : x.min_price >= 0
    /\ \A e \in BagToSet(links) : e.production_time >= 0
=============================================================================
